---------------------------- MODULE Spec2Model ----------------------------
(***************************************************************************)
(* Model of the flood-risk scoring core: the three risk components, the    *)
(* risk composer and category mapper (risk_model.py, risk_components/),    *)
(* batch quality control (quality_control.py), the saturation normaliser   *)
(* (normalization.py), the feature extractor (features.py) and the         *)
(* timestep loop of run_pipeline (main.py).                                *)
(*                                                                         *)
(* Numbers: the Python code computes on floats.  The model computes on     *)
(* exact rationals <<n, d>> (d > 0, lowest terms), so every division of    *)
(* the code is a division here; IEEE-754 rounding is not modelled.         *)
(***************************************************************************)
EXTENDS Integers, Sequences, FiniteSets, TLC

\* call, pc, ret: the function called with its arguments, its progress and
\* its result; frame: the local variables of run_pipeline while it runs.
VARIABLES call, pc, ret, frame

vars == <<call, pc, ret, frame>>

(***************************************************************************)
(* Exact rational arithmetic.                                              *)
(***************************************************************************)
Abs(x) == IF x < 0 THEN 0 - x ELSE x

RECURSIVE GCD(_, _)
GCD(a, b) == IF b = 0 THEN a ELSE GCD(b, a % b)

\* n/d in lowest terms with a positive denominator (d # 0).
R(n, d) ==
    LET g == GCD(Abs(n), Abs(d))
        s == IF d < 0 THEN 0 - 1 ELSE 1
    IN  <<(s * n) \div g, (s * d) \div g>>

Zero == <<0, 1>>
One == <<1, 1>>

RatAdd(a, b) == R(a[1] * b[2] + b[1] * a[2], a[2] * b[2])
RatSub(a, b) == R(a[1] * b[2] - b[1] * a[2], a[2] * b[2])
RatMul(a, b) == R(a[1] * b[1], a[2] * b[2])
\* b # 0 is the caller's obligation, as for Python's "/".
RatDiv(a, b) == R(a[1] * b[2], a[2] * b[1])
RatLE(a, b) == a[1] * b[2] <= b[1] * a[2]
RatLT(a, b) == a[1] * b[2] < b[1] * a[2]
RatMin(a, b) == IF RatLT(b, a) THEN b ELSE a
RatMax(a, b) == IF RatLT(a, b) THEN b ELSE a

(***************************************************************************)
(* Results of a call: a returned value or a raised exception.              *)
(***************************************************************************)
Returned(v) == [exc |-> "none", value |-> v]
Raised(e) == [exc |-> e, value |-> Zero]

(***************************************************************************)
(* risk_components/soil_saturation.py                                      *)
(***************************************************************************)
\* Mutant: the very-wet segment restarts at 60 instead of continuing at 70.
soil_saturation_jump(S) ==
    IF RatLE(S, R(1, 5)) THEN Zero
    ELSE IF RatLT(R(1, 5), S) /\ RatLE(S, One)
         THEN RatMul(RatDiv(RatSub(S, R(1, 5)), RatSub(One, R(1, 5))), R(70, 1))
         ELSE LET S_capped == RatMin(S, R(3, 2))
                  fraction == RatDiv(RatSub(S_capped, One), RatSub(R(3, 2), One))
              IN  RatAdd(R(60, 1), RatMul(fraction, R(30, 1)))

\* Mutant: the dry cut-off is lost; the linear segment starts at S = 0.
soil_saturation_no_dry_cutoff(S) ==
    IF RatLE(S, Zero) THEN Zero
    ELSE IF RatLE(S, One) THEN RatMul(S, R(70, 1))
    ELSE RatAdd(R(70, 1), RatMul(RatDiv(RatSub(RatMin(S, R(3, 2)), One), R(1, 2)), R(30, 1)))

compute_soil_saturation_component(S) ==
    IF RatLE(S, R(1, 5)) THEN Zero
    ELSE IF RatLT(R(1, 5), S) /\ RatLE(S, One)
         THEN LET fraction == RatDiv(RatSub(S, R(1, 5)), RatSub(One, R(1, 5)))
              IN  RatMul(fraction, R(70, 1))
         ELSE LET S_capped == RatMin(S, R(3, 2))
                  fraction == RatDiv(RatSub(S_capped, One), RatSub(R(3, 2), One))
              IN  RatAdd(R(70, 1), RatMul(fraction, R(30, 1)))

(***************************************************************************)
(* risk_components/storm_severity.py                                       *)
(***************************************************************************)
\* Mutant: the ratio is not capped at 1.5.
storm_severity_uncapped(forecast_24h_mm, IDF_24h_2yr_mm) ==
    IF IDF_24h_2yr_mm = Zero
    THEN Raised("ZeroDivisionError")
    ELSE LET ratio == RatDiv(forecast_24h_mm, IDF_24h_2yr_mm)
         IN  Returned(IF RatLE(ratio, R(3, 10)) THEN Zero
                      ELSE IF RatLE(ratio, One)
                           THEN RatDiv(RatSub(ratio, R(3, 10)), RatSub(One, R(3, 10)))
                           ELSE ratio)

\* Python float division raises ZeroDivisionError on a zero divisor; any
\* other divisor, negative ones included, yields a ratio.
compute_storm_severity_component(forecast_24h_mm, IDF_24h_2yr_mm) ==
    IF IDF_24h_2yr_mm = Zero
    THEN Raised("ZeroDivisionError")
    ELSE LET storm_severity_ratio == RatDiv(forecast_24h_mm, IDF_24h_2yr_mm)
             ratio_capped == RatMin(storm_severity_ratio, R(3, 2))
         IN  Returned(
               IF RatLE(storm_severity_ratio, R(3, 10)) THEN Zero
               ELSE IF RatLT(R(3, 10), storm_severity_ratio) /\ RatLE(storm_severity_ratio, One)
                    THEN RatDiv(RatSub(storm_severity_ratio, R(3, 10)), RatSub(One, R(3, 10)))
                    ELSE RatAdd(One, RatMul(RatDiv(RatSub(ratio_capped, One),
                                                   RatSub(R(3, 2), One)), R(1, 2))))

(***************************************************************************)
(* risk_components/site_sensitivity.py                                     *)
(***************************************************************************)
DELTA_S_REF == R(1, 10)

\* Mutant: the absolute change counts, so drying raises the sensitivity.
site_sensitivity_abs(soil_saturation_current, soil_saturation_1h_ago) ==
    LET d == RatSub(soil_saturation_current, soil_saturation_1h_ago)
        delta_S_1h == IF RatLT(d, Zero) THEN RatSub(Zero, d) ELSE d
    IN  RatMax(Zero, RatMin(RatDiv(delta_S_1h, DELTA_S_REF), One))

compute_site_sensitivity_component(soil_saturation_current, soil_saturation_1h_ago) ==
    LET delta_S_1h == RatMax(Zero, RatSub(soil_saturation_current, soil_saturation_1h_ago))
        sensitivity_index == RatDiv(delta_S_1h, DELTA_S_REF)
    IN  RatMax(Zero, RatMin(sensitivity_index, One))

(***************************************************************************)
(* risk_model.py                                                           *)
(***************************************************************************)
\* Mutant: the displayed score is not clamped.
compute_risk_score_unclamped(soil_saturation_current, soil_saturation_1h_ago, forecast_24h_mm, IDF_24h_2yr_mm) ==
    LET base_soil_risk == compute_soil_saturation_component(soil_saturation_current)
        storm == compute_storm_severity_component(forecast_24h_mm, IDF_24h_2yr_mm)
        site_sensitivity_factor ==
            compute_site_sensitivity_component(soil_saturation_current, soil_saturation_1h_ago)
        risk_score_internal ==
            RatMul(base_soil_risk, RatAdd(One, RatMul(site_sensitivity_factor, storm.value)))
    IN  IF storm.exc # "none"
        THEN Raised(storm.exc)
        ELSE Returned([internal |-> risk_score_internal, displayed |-> risk_score_internal])

\* Mutant: the amplification adds the two factors instead of multiplying them.
compute_risk_score_additive(soil_saturation_current, soil_saturation_1h_ago, forecast_24h_mm, IDF_24h_2yr_mm) ==
    LET base_soil_risk == compute_soil_saturation_component(soil_saturation_current)
        storm == compute_storm_severity_component(forecast_24h_mm, IDF_24h_2yr_mm)
        site_sensitivity_factor ==
            compute_site_sensitivity_component(soil_saturation_current, soil_saturation_1h_ago)
        risk_score_internal ==
            RatMul(base_soil_risk, RatAdd(One, RatAdd(site_sensitivity_factor, storm.value)))
    IN  IF storm.exc # "none"
        THEN Raised(storm.exc)
        ELSE Returned([internal |-> risk_score_internal,
                       displayed |-> RatMax(Zero, RatMin(risk_score_internal, R(100, 1)))])

\* An exception of the storm component propagates: the function has no
\* try/except.
compute_risk_score(soil_saturation_current, soil_saturation_1h_ago, forecast_24h_mm, IDF_24h_2yr_mm) ==
    LET base_soil_risk == compute_soil_saturation_component(soil_saturation_current)
        storm == compute_storm_severity_component(forecast_24h_mm, IDF_24h_2yr_mm)
        storm_factor == storm.value
        site_sensitivity_factor ==
            compute_site_sensitivity_component(soil_saturation_current, soil_saturation_1h_ago)
        amplification_factor == RatAdd(One, RatMul(site_sensitivity_factor, storm_factor))
        risk_score_internal == RatMul(base_soil_risk, amplification_factor)
        risk_score_displayed == RatMax(Zero, RatMin(risk_score_internal, R(100, 1)))
    IN  IF storm.exc # "none"
        THEN Raised(storm.exc)
        ELSE Returned([internal |-> risk_score_internal,
                       displayed |-> risk_score_displayed])

\* Mutant: the boundaries belong to the lower bucket (<= instead of <).
map_risk_category_inclusive(risk_score_displayed) ==
    IF RatLE(risk_score_displayed, R(30, 1)) THEN "Low"
    ELSE IF RatLE(risk_score_displayed, R(60, 1)) THEN "Moderate"
    ELSE IF RatLE(risk_score_displayed, R(80, 1)) THEN "High"
    ELSE "Severe"

map_risk_category(risk_score_displayed) ==
    LET score == risk_score_displayed
    IN  IF RatLT(score, R(30, 1)) THEN "Low"
        ELSE IF RatLT(score, R(60, 1)) THEN "Moderate"
        ELSE IF RatLT(score, R(80, 1)) THEN "High"
        ELSE "Severe"


(***************************************************************************)
(* Inputs of the risk functions.  Saturations lie on a grid of 1/20,       *)
(* rainfall depths are whole millimetres, scores are half points.          *)
(***************************************************************************)
SLow == 2
MaxS == 34
FLow == 2
MaxForecast == 50
MaxIdf == 25
MaxScoreHalves == 200

SGrid == {R(k, 20) : k \in (0 - SLow)..MaxS}
ForecastGrid == {R(f, 1) : f \in (0 - FLow)..MaxForecast}
IdfGrid == {R(i, 1) : i \in (0 - MaxIdf)..MaxIdf}
\* The composer is called on a coarser rainfall grid: four inputs multiply.
RiskForecastGrid == {R(f, 1) : f \in {x \in 0..MaxForecast : x % 10 = 0}}
RiskIdfGrid == {R(i, 1) : i \in {x \in (0 - MaxIdf)..MaxIdf : x % 25 = 0}}
ScoreGrid == {R(k, 2) : k \in 0..MaxScoreHalves}

SoilCalls == [fn : {"compute_soil_saturation_component"}, S : SGrid]
StormCalls == [fn : {"compute_storm_severity_component"}, forecast : ForecastGrid, idf : IdfGrid]
SiteCalls == [fn : {"compute_site_sensitivity_component"}, S_now : SGrid, S_1h_ago : SGrid]
RiskCalls == [fn : {"compute_risk_score"}, S_now : SGrid, S_1h_ago : SGrid, forecast : RiskForecastGrid, idf : RiskIdfGrid]
CategoryCalls == [fn : {"map_risk_category"}, score : ScoreGrid]

NoValue == <<>>

InitRisk ==
    /\ call \in SoilCalls \cup StormCalls \cup SiteCalls \cup RiskCalls \cup CategoryCalls
    /\ pc = "called"
    /\ ret = NoValue
    /\ frame = NoValue

\* A call finishes by returning a value or by raising an exception.
Finish(result) ==
    /\ pc' = IF result.exc = "none" THEN "returned" ELSE "raised"
    /\ ret' = IF result.exc = "none" THEN result.value ELSE result.exc
    /\ UNCHANGED <<call, frame>>

Call_compute_soil_saturation_component ==
    /\ pc = "called"
    /\ call.fn = "compute_soil_saturation_component"
    /\ Finish(Returned(compute_soil_saturation_component(call.S)))

Call_compute_storm_severity_component ==
    /\ pc = "called"
    /\ call.fn = "compute_storm_severity_component"
    /\ Finish(compute_storm_severity_component(call.forecast, call.idf))

Call_compute_site_sensitivity_component ==
    /\ pc = "called"
    /\ call.fn = "compute_site_sensitivity_component"
    /\ Finish(Returned(compute_site_sensitivity_component(call.S_now, call.S_1h_ago)))

Call_compute_risk_score ==
    /\ pc = "called"
    /\ call.fn = "compute_risk_score"
    /\ Finish(compute_risk_score(call.S_now, call.S_1h_ago, call.forecast, call.idf))

Call_map_risk_category ==
    /\ pc = "called"
    /\ call.fn = "map_risk_category"
    /\ Finish(Returned(map_risk_category(call.score)))

NextRisk ==
    \/ Call_compute_soil_saturation_component
    \/ Call_compute_storm_severity_component
    \/ Call_compute_site_sensitivity_component
    \/ Call_compute_risk_score
    \/ Call_map_risk_category

SpecRisk == InitRisk /\ [][NextRisk]_vars

(***************************************************************************)
(* Properties of the risk functions, checked under SpecRisk.               *)
(***************************************************************************)
Done(fn) == call.fn = fn /\ pc # "called"
HasReturned(fn) == call.fn = fn /\ pc = "returned"
Clamp(x, lo, hi) == RatMax(lo, RatMin(x, hi))

\* C1: whenever compute_risk_score returns, the displayed score lies in
\* [0, 100] and the internal score is >= 0.  (That the internal score can
\* exceed 100 while the displayed score is exactly 100 is the state
\* InternalAbove100DisplayedAt100, which is reached.)
DisplayedScoreInRange ==
    HasReturned("compute_risk_score") =>
        /\ RatLE(Zero, ret.displayed)
        /\ RatLE(ret.displayed, R(100, 1))
        /\ RatLE(Zero, ret.internal)

InternalAbove100DisplayedAt100 ==
    /\ HasReturned("compute_risk_score")
    /\ RatLT(R(100, 1), ret.internal)
    /\ ret.displayed = R(100, 1)

CategoryPartition ==
    HasReturned("map_risk_category") =>
        LET s == call.score
        IN  /\ ret \in {"Low", "Moderate", "High", "Severe"}
            /\ (ret = "Low") <=> RatLT(s, R(30, 1))
            /\ (ret = "Moderate") <=> (RatLE(R(30, 1), s) /\ RatLT(s, R(60, 1)))
            /\ (ret = "High") <=> (RatLE(R(60, 1), s) /\ RatLT(s, R(80, 1)))
            /\ (ret = "Severe") <=> RatLE(R(80, 1), s)
            /\ (s = R(30, 1)) => ret = "Moderate"
            /\ (s = R(60, 1)) => ret = "High"
            /\ (s = R(80, 1)) => ret = "Severe"

BoundaryScoreCategorised ==
    /\ HasReturned("map_risk_category")
    /\ call.score = R(30, 1)
    /\ ret = "Moderate"

\* C4: the soil-saturation base risk is 0 for S <= 0.2, is 70 at S = 1.0,
\* continues from 70 above 1.0 (70 <= base <= 70 + 60 * (S - 1), no jump),
\* is 100 for S >= 1.5, lies in [0, 100] and is non-decreasing in S.
SoilBaseRiskShape ==
    HasReturned("compute_soil_saturation_component") =>
        LET S == call.S
        IN  /\ RatLE(S, R(1, 5)) => ret = Zero
            /\ (S = One) => ret = R(70, 1)
            /\ RatLT(One, S) =>
                  /\ RatLE(R(70, 1), ret)
                  /\ RatLE(ret, RatAdd(R(70, 1), RatMul(R(60, 1), RatSub(S, One))))
            /\ RatLE(R(3, 2), S) => ret = R(100, 1)
            /\ RatLE(Zero, ret) /\ RatLE(ret, R(100, 1))
            /\ \A S2 \in SGrid :
                  RatLE(S, S2) => RatLE(ret, compute_soil_saturation_component(S2))

SoilJustAboveSaturation ==
    /\ HasReturned("compute_soil_saturation_component")
    /\ call.S = R(21, 20)
    /\ ret = R(73, 1)

\* C5: for a positive IDF reference and ratio = forecast / idf, the storm
\* factor is 0 for ratio <= 0.3, (ratio - 0.3) / 0.7 for 0.3 < ratio <= 1.0,
\* 1 + (min(ratio, 1.5) - 1) for ratio > 1.0; it is 1.0 at ratio 1.0, 1.5 for
\* every ratio >= 1.5, lies in [0, 1.5] and is non-decreasing in the ratio.
StormFactorShape ==
    (Done("compute_storm_severity_component") /\ RatLT(Zero, call.idf)) =>
        LET ratio == RatDiv(call.forecast, call.idf)
        IN  /\ pc = "returned"
            /\ RatLE(ratio, R(3, 10)) => ret = Zero
            /\ (RatLT(R(3, 10), ratio) /\ RatLE(ratio, One)) =>
                  ret = RatDiv(RatSub(ratio, R(3, 10)), R(7, 10))
            /\ RatLT(One, ratio) =>
                  ret = RatAdd(One, RatSub(RatMin(ratio, R(3, 2)), One))
            /\ (ratio = One) => ret = One
            /\ RatLE(R(3, 2), ratio) => ret = R(3, 2)
            /\ RatLE(Zero, ret) /\ RatLE(ret, R(3, 2))
            /\ \A f2 \in ForecastGrid :
                  RatLE(call.forecast, f2) =>
                      RatLE(ret, compute_storm_severity_component(f2, call.idf).value)

StormFactorSaturated ==
    /\ HasReturned("compute_storm_severity_component")
    /\ call.forecast = R(50, 1) /\ call.idf = R(25, 1)
    /\ ret = R(3, 2)

\* C6 (as claimed): the storm-severity factor raises an error whenever the IDF
\* reference is zero or negative, and so does compute_risk_score.
NonPositiveIdfRaises ==
    /\ (Done("compute_storm_severity_component") /\ RatLE(call.idf, Zero)) => pc = "raised"
    /\ (Done("compute_risk_score") /\ RatLE(call.idf, Zero)) => pc = "raised"

\* C7: the site-sensitivity factor is 0 whenever S_now <= S_1h_ago, 1.0
\* whenever S_now - S_1h_ago >= 0.1, (S_now - S_1h_ago) / 0.1 for a rise
\* strictly between 0 and 0.1, and always lies in [0, 1].
SiteSensitivityShape ==
    HasReturned("compute_site_sensitivity_component") =>
        LET rise == RatSub(call.S_now, call.S_1h_ago)
        IN  /\ RatLE(call.S_now, call.S_1h_ago) => ret = Zero
            /\ RatLE(R(1, 10), rise) => ret = One
            /\ (RatLT(Zero, rise) /\ RatLT(rise, R(1, 10))) => ret = RatDiv(rise, R(1, 10))
            /\ RatLE(Zero, ret) /\ RatLE(ret, One)

PartialRiseScored ==
    /\ HasReturned("compute_site_sensitivity_component")
    /\ RatSub(call.S_now, call.S_1h_ago) = R(1, 20)
    /\ ret = R(1, 2)

\* C16: whenever S_now <= 0.2 and the IDF reference is positive,
\* compute_risk_score returns internal = displayed = 0 and the category of
\* the displayed score is Low, whatever S_1h_ago and the forecast are.
DrySoilScoresZero ==
    (Done("compute_risk_score") /\ RatLE(call.S_now, R(1, 5)) /\ RatLT(Zero, call.idf)) =>
        /\ pc = "returned"
        /\ ret.internal = Zero
        /\ ret.displayed = Zero
        /\ map_risk_category(ret.displayed) = "Low"

\* Dry soil that wetted fast ahead of a storm twice the 2-year depth.
DrySoilUnderSevereStorm ==
    /\ HasReturned("compute_risk_score")
    /\ call.S_now = R(1, 5) /\ call.S_1h_ago = Zero
    /\ call.forecast = R(50, 1) /\ call.idf = R(25, 1)
    /\ ret.internal = Zero

\* C17: for a positive IDF reference, base <= internal <= 2.5 * base <= 250,
\* and internal = base whenever S_now <= S_1h_ago or forecast / idf <= 0.3.
InternalScoreBounded ==
    (Done("compute_risk_score") /\ RatLT(Zero, call.idf)) =>
        LET base == compute_soil_saturation_component(call.S_now)
        IN  /\ pc = "returned"
            /\ RatLE(base, ret.internal)
            /\ RatLE(ret.internal, RatMul(R(5, 2), base))
            /\ RatLE(RatMul(R(5, 2), base), R(250, 1))
            /\ RatLE(ret.internal, R(250, 1))
            /\ RatLE(call.S_now, call.S_1h_ago) => ret.internal = base
            /\ RatLE(RatDiv(call.forecast, call.idf), R(3, 10)) => ret.internal = base

InternalScoreAtCeiling ==
    /\ HasReturned("compute_risk_score")
    /\ RatLT(Zero, call.idf)
    /\ ret.internal = R(250, 1)
    /\ ret.displayed = R(100, 1)

(***************************************************************************)
(* quality_control.py                                                      *)
(*                                                                         *)
(* A raw sensor value is [kind, v]: kind "num" is a number of v            *)
(* hundredths, "None" is Python's None, "text" is an object float()        *)
(* rejects, "nan" is float('nan').  A reading maps sensor keys to values.  *)
(***************************************************************************)
Keys == {"north_sensor", "south_sensor"}

Num(v) == [kind |-> "num", v |-> v]
NoneValue == [kind |-> "None", v |-> 0]
TextValue == [kind |-> "text", v |-> 0]
NaNValue == [kind |-> "nan", v |-> 0]

\* The checks made on one value of a reading, in the order of the loop body.
value_passes_basic_qc(value) ==
    IF value.kind = "None" THEN FALSE
    ELSE IF value.kind = "text" THEN FALSE
    ELSE IF value.kind = "nan" THEN FALSE
    ELSE IF ~(0 <= value.v /\ value.v <= 100) THEN FALSE
    ELSE TRUE

reading_passes_basic_qc(reading) ==
    \A key \in DOMAIN reading : value_passes_basic_qc(reading[key])

\* Index of the first reading of the batch that passes, 0 when none does.
RECURSIVE first_passing(_, _)
first_passing(batch_readings, i) ==
    IF i > Len(batch_readings) THEN 0
    ELSE IF reading_passes_basic_qc(batch_readings[i]) THEN i
    ELSE first_passing(batch_readings, i + 1)

\* Mutant: with nothing to fall back on, an empty reading is returned
\* instead of raising.
QC_and_smooth_soft(batch_readings, previous_valid_reading) ==
    LET i == first_passing(batch_readings, 1)
    IN  IF i # 0 THEN Returned(batch_readings[i])
        ELSE IF previous_valid_reading # <<>> THEN Returned(previous_valid_reading[1])
        ELSE Returned(<<>>)

\* previous_valid_reading is <<>> for None and <<reading>> otherwise.
QC_and_smooth(batch_readings, previous_valid_reading) ==
    LET i == first_passing(batch_readings, 1)
    IN  IF i # 0 THEN Returned(batch_readings[i])
        ELSE IF previous_valid_reading # <<>> THEN Returned(previous_valid_reading[1])
        ELSE Raised("ValueError")

MaxBatch == 2

RawValues == {NoneValue, TextValue, NaNValue, Num(0 - 10), Num(20), Num(30), Num(150)}
\* The pipeline builds every reading with all the sensor keys.
RawReadings == [Keys -> RawValues]
Batches == UNION {[1..n -> RawReadings] : n \in 0..MaxBatch}
PreviousReadings == {<<>>, <<[key \in Keys |-> Num(40)]>>, <<[key \in Keys |-> Num(20)]>>}

QCCalls == [fn : {"QC_and_smooth"}, batch_readings : Batches, previous_valid_reading : PreviousReadings]

InitQC ==
    /\ call \in QCCalls
    /\ pc = "called"
    /\ ret = NoValue
    /\ frame = NoValue

Call_QC_and_smooth ==
    /\ pc = "called"
    /\ call.fn = "QC_and_smooth"
    /\ Finish(QC_and_smooth(call.batch_readings, call.previous_valid_reading))

NextQC == Call_QC_and_smooth

SpecQC == InitQC /\ [][NextQC]_vars

(***************************************************************************)
(* Properties of quality control, checked under SpecQC.                    *)
(***************************************************************************)
\* The readings of the batch that pass basic QC.
PassingIndices(batch) == {i \in 1..Len(batch) : reading_passes_basic_qc(batch[i])}

\* The k-th smallest of the numbers vals[i], i \in idx.
KthSmallest(vals, idx, k) ==
    CHOOSE x \in {vals[i] : i \in idx} :
        /\ Cardinality({i \in idx : vals[i] < x}) < k
        /\ k <= Cardinality({i \in idx : vals[i] <= x})

\* Twice the median of the numbers vals[i], i \in idx (idx not empty).
TwiceMedian(vals, idx) ==
    LET n == Cardinality(idx)
    IN  IF n % 2 = 1
        THEN 2 * KthSmallest(vals, idx, (n + 1) \div 2)
        ELSE KthSmallest(vals, idx, n \div 2) + KthSmallest(vals, idx, (n \div 2) + 1)

\* C8 (as claimed): when at least one reading passes basic QC, the result
\* holds, for each sensor key, the median of that key's values over the
\* passing readings of the batch.
CleanedIsPerKeyMedian ==
    (Done("QC_and_smooth") /\ PassingIndices(call.batch_readings) # {}) =>
        /\ pc = "returned"
        /\ DOMAIN ret = Keys
        /\ \A key \in Keys :
              LET vals == [i \in 1..Len(call.batch_readings) |->
                              call.batch_readings[i][key].v]
              IN  /\ ret[key].kind = "num"
                  /\ 2 * ret[key].v = TwiceMedian(vals, PassingIndices(call.batch_readings))

\* C9: when no reading of the batch passes basic QC (the empty batch
\* included), the result is previous_valid_reading, unchanged, if one was
\* supplied, and an error otherwise; when some reading passes, the result is
\* a passing reading of the batch, whatever previous_valid_reading is.
FallbackOrFail ==
    Done("QC_and_smooth") =>
        LET batch == call.batch_readings
            prev == call.previous_valid_reading
            passing == PassingIndices(batch)
        IN  /\ (passing = {} /\ prev # <<>>) => (pc = "returned" /\ ret = prev[1])
            /\ (passing = {} /\ prev = <<>>) => (pc = "raised" /\ ret = "ValueError")
            /\ (passing # {}) => (pc = "returned" /\ \E i \in passing : ret = batch[i])

FellBackToPrevious ==
    /\ HasReturned("QC_and_smooth")
    /\ Len(call.batch_readings) = MaxBatch
    /\ PassingIndices(call.batch_readings) = {}
    /\ call.previous_valid_reading # <<>>
    /\ ret = call.previous_valid_reading[1]

(***************************************************************************)
(* normalization.py                                                        *)
(*                                                                         *)
(* data/soil_water_properties.csv is read on every call; the model passes  *)
(* its rows, in file order, as soil_water_properties.  Water contents are  *)
(* rationals.                                                              *)
(***************************************************************************)
\* Mutant: the saturation index is clamped to [0, 1].
normalize_moisture_clamped(cleaned_readings, soil_type, soil_water_properties) ==
    LET row == SelectSeq(soil_water_properties, LAMBDA r : r.soil_type = soil_type)
    IN  IF row = <<>>
        THEN Raised("ValueError")
        ELSE Returned([key \in DOMAIN cleaned_readings |->
                 RatMax(Zero, RatMin(One,
                     RatDiv(RatSub(cleaned_readings[key], row[1].fc_vwc),
                            RatSub(row[1].sat_vwc, row[1].fc_vwc))))])

\* Mutant: an unknown soil type falls back to the defaults of config.py
\* (THETA_FC = 0.25, THETA_SAT = 0.40) instead of raising.
normalize_moisture_default(cleaned_readings, soil_type, soil_water_properties) ==
    LET row == SelectSeq(soil_water_properties, LAMBDA r : r.soil_type = soil_type)
        fc_vwc == IF row = <<>> THEN R(25, 100) ELSE row[1].fc_vwc
        sat_vwc == IF row = <<>> THEN R(40, 100) ELSE row[1].sat_vwc
    IN  Returned([key \in DOMAIN cleaned_readings |->
             RatDiv(RatSub(cleaned_readings[key], fc_vwc), RatSub(sat_vwc, fc_vwc))])

normalize_moisture(cleaned_readings, soil_type, soil_water_properties) ==
    LET row == SelectSeq(soil_water_properties, LAMBDA r : r.soil_type = soil_type)
    IN  IF row = <<>>
        THEN Raised("ValueError")
        ELSE LET fc_vwc == row[1].fc_vwc
                 sat_vwc == row[1].sat_vwc
             IN  Returned([key \in DOMAIN cleaned_readings |->
                      RatDiv(RatSub(cleaned_readings[key], fc_vwc), RatSub(sat_vwc, fc_vwc))])

MaxTheta == 60

\* Cleaned water contents: multiples of 0.05 up to MaxTheta hundredths.
ThetaGrid == {R(x, 100) : x \in {y \in 0..MaxTheta : y % 5 = 0}}
CleanedReadings == UNION {[K -> ThetaGrid] : K \in SUBSET Keys}

SoilRow(soil_type, fc, sat) == [soil_type |-> soil_type, fc_vwc |-> R(fc, 100), sat_vwc |-> R(sat, 100)]
\* Two contents of the soil table; the second lists loam twice.
SoilTables ==
    { <<SoilRow("loam", 25, 40), SoilRow("clay", 35, 50)>>,
      <<SoilRow("clay", 30, 45), SoilRow("loam", 20, 50), SoilRow("loam", 25, 40)>> }
SoilTypes == {"loam", "clay", "sand"}

NormCalls == [fn : {"normalize_moisture"}, cleaned_readings : CleanedReadings, soil_type : SoilTypes, soil_water_properties : SoilTables]

InitNorm ==
    /\ call \in NormCalls
    /\ pc = "called"
    /\ ret = NoValue
    /\ frame = NoValue

Call_normalize_moisture ==
    /\ pc = "called"
    /\ call.fn = "normalize_moisture"
    /\ Finish(normalize_moisture(call.cleaned_readings, call.soil_type, call.soil_water_properties))

NextNorm == Call_normalize_moisture

SpecNorm == InitNorm /\ [][NextNorm]_vars

(***************************************************************************)
(* Properties of the normaliser, checked under SpecNorm.                   *)
(***************************************************************************)
\* The rows of the soil table for the soil type of the call.
MatchingRows == SelectSeq(call.soil_water_properties, LAMBDA r : r.soil_type = call.soil_type)

\* C10: normalize_moisture returns a map with exactly the keys of the input
\* reading; each value S satisfies S * (sat - fc) + fc = theta for the
\* table's (fc, sat), unclamped: theta < fc gives S < 0, theta > sat gives
\* S > 1; with fc = 0.25 and sat = 0.40, theta = 0.25 gives 0 and
\* theta = 0.40 gives 1.
NormalizedUnclamped ==
    HasReturned("normalize_moisture") =>
        LET fc == MatchingRows[1].fc_vwc
            sat == MatchingRows[1].sat_vwc
        IN  /\ DOMAIN ret = DOMAIN call.cleaned_readings
            /\ \A key \in DOMAIN ret :
                  LET theta == call.cleaned_readings[key]
                  IN  /\ RatAdd(RatMul(ret[key], RatSub(sat, fc)), fc) = theta
                      /\ RatLT(theta, fc) => RatLT(ret[key], Zero)
                      /\ RatLT(sat, theta) => RatLT(One, ret[key])
                      /\ (fc = R(25, 100) /\ sat = R(40, 100) /\ theta = R(25, 100))
                            => ret[key] = Zero
                      /\ (fc = R(25, 100) /\ sat = R(40, 100) /\ theta = R(40, 100))
                            => ret[key] = One

WetterThanSaturation ==
    /\ HasReturned("normalize_moisture")
    /\ DOMAIN ret = Keys
    /\ MatchingRows[1].fc_vwc = R(25, 100) /\ MatchingRows[1].sat_vwc = R(40, 100)
    /\ call.cleaned_readings["north_sensor"] = R(55, 100)
    /\ ret["north_sensor"] = R(2, 1)
    /\ call.cleaned_readings["south_sensor"] = R(10, 100)
    /\ ret["south_sensor"] = R(0 - 1, 1)

\* C11: when the soil type has no row in the soil table, normalize_moisture
\* raises an error and returns no saturation map; a map is returned only
\* when a row matches (no default pair is substituted).
UnknownSoilTypeRaises ==
    Done("normalize_moisture") =>
        /\ (MatchingRows = <<>>) => (pc = "raised" /\ ret = "ValueError")
        /\ (pc = "returned") => MatchingRows # <<>>

UnknownSoilTypeRejected ==
    /\ Done("normalize_moisture")
    /\ call.soil_type = "sand"
    /\ DOMAIN call.cleaned_readings = Keys
    /\ pc = "raised"

(***************************************************************************)
(* features.py                                                             *)
(***************************************************************************)
WallKeys == {"north_sensor", "south_sensor", "east_sensor", "west_sensor"}

\* The first key, in the order of the four lookups, that the map lacks;
\* "" when it holds all four.
first_missing_key(saturation_values) ==
    IF "north_sensor" \notin DOMAIN saturation_values THEN "north_sensor"
    ELSE IF "south_sensor" \notin DOMAIN saturation_values THEN "south_sensor"
    ELSE IF "east_sensor" \notin DOMAIN saturation_values THEN "east_sensor"
    ELSE IF "west_sensor" \notin DOMAIN saturation_values THEN "west_sensor"
    ELSE ""

\* Mutant: a missing wall key reads as 0.0 (dict.get with a default) and
\* features are returned.
compute_features_get_default(saturation_values, rain_6h_prev, rain_12h_forecast) ==
    LET get(key) == IF key \in DOMAIN saturation_values THEN saturation_values[key] ELSE Zero
        n == get("north_sensor")
        s == get("south_sensor")
        e == get("east_sensor")
        w == get("west_sensor")
        max_sat == RatMax(RatMax(RatMax(n, s), e), w)
        min_sat == RatMin(RatMin(RatMin(n, s), e), w)
    IN  Returned([sat_avg |-> RatDiv(RatAdd(RatAdd(RatAdd(n, s), e), w), R(4, 1)),
                  max_sat |-> max_sat,
                  sat_asymmetry |-> RatSub(max_sat, min_sat),
                  rain_6h_prev |-> rain_6h_prev,
                  rain_12h_forecast |-> rain_12h_forecast])

\* saturation_values[key] raises KeyError on the first missing wall key.
compute_features(saturation_values, rain_6h_prev, rain_12h_forecast) ==
    IF first_missing_key(saturation_values) # ""
    THEN Raised("KeyError")
    ELSE LET sat_north_sensor == saturation_values["north_sensor"]
             sat_south_sensor == saturation_values["south_sensor"]
             sat_east_sensor == saturation_values["east_sensor"]
             sat_west_sensor == saturation_values["west_sensor"]
             sat_sum == RatAdd(RatAdd(RatAdd(sat_north_sensor, sat_south_sensor),
                                      sat_east_sensor), sat_west_sensor)
             sat_avg == RatDiv(sat_sum, R(4, 1))
             max_sat == RatMax(RatMax(RatMax(sat_north_sensor, sat_south_sensor),
                                      sat_east_sensor), sat_west_sensor)
             min_sat == RatMin(RatMin(RatMin(sat_north_sensor, sat_south_sensor),
                                      sat_east_sensor), sat_west_sensor)
             sat_asymmetry == RatSub(max_sat, min_sat)
         IN  Returned([sat_avg |-> sat_avg,
                       max_sat |-> max_sat,
                       sat_asymmetry |-> sat_asymmetry,
                       rain_6h_prev |-> rain_6h_prev,
                       rain_12h_forecast |-> rain_12h_forecast])

SatLow == 1
MaxSat == 5
MaxRain == 1

\* Saturations on a grid of 1/4, maps over every subset of the wall keys,
\* rainfall in steps of 12 mm.
SatGrid == {R(k, 4) : k \in (0 - SatLow)..MaxSat}
SaturationMaps == UNION {[K -> SatGrid] : K \in SUBSET WallKeys}
RainGrid == {R(12 * k, 1) : k \in 0..MaxRain}

FeatureCalls == [fn : {"compute_features"}, saturation_values : SaturationMaps, rain_6h_prev : RainGrid, rain_12h_forecast : RainGrid]

InitFeatures ==
    /\ call \in FeatureCalls
    /\ pc = "called"
    /\ ret = NoValue
    /\ frame = NoValue

Call_compute_features ==
    /\ pc = "called"
    /\ call.fn = "compute_features"
    /\ Finish(compute_features(call.saturation_values, call.rain_6h_prev, call.rain_12h_forecast))

NextFeatures == Call_compute_features

SpecFeatures == InitFeatures /\ [][NextFeatures]_vars

(***************************************************************************)
(* Properties of the feature extractor, checked under SpecFeatures.        *)
(***************************************************************************)
\* C12: for a map holding the four wall keys, sat_avg is the arithmetic mean
\* of the four values, max_sat their maximum and sat_asymmetry = max - min
\* over the same values, so sat_asymmetry >= 0 and
\* max_sat - sat_asymmetry <= sat_avg <= max_sat; a missing wall key makes
\* the call fail.
FeaturesAggregateFourWalls ==
    Done("compute_features") =>
        LET sat == call.saturation_values
        IN  IF WallKeys \subseteq DOMAIN sat
            THEN /\ pc = "returned"
                 /\ RatMul(ret.sat_avg, R(4, 1)) =
                       RatAdd(sat["north_sensor"], RatAdd(sat["south_sensor"],
                           RatAdd(sat["east_sensor"], sat["west_sensor"])))
                 /\ \E key \in WallKeys : sat[key] = ret.max_sat
                 /\ \A key \in WallKeys : RatLE(sat[key], ret.max_sat)
                 /\ \E key \in WallKeys : sat[key] = RatSub(ret.max_sat, ret.sat_asymmetry)
                 /\ \A key \in WallKeys : RatLE(RatSub(ret.max_sat, ret.sat_asymmetry), sat[key])
                 /\ RatLE(Zero, ret.sat_asymmetry)
                 /\ RatLE(RatSub(ret.max_sat, ret.sat_asymmetry), ret.sat_avg)
                 /\ RatLE(ret.sat_avg, ret.max_sat)
            ELSE pc = "raised"

UnevenWallsAggregated ==
    /\ HasReturned("compute_features")
    /\ ret.sat_asymmetry = R(3, 2)
    /\ RatLT(RatSub(ret.max_sat, ret.sat_asymmetry), ret.sat_avg)
    /\ RatLT(ret.sat_avg, ret.max_sat)

\* C13 (as claimed): the returned bundle has a wettest_side, a key whose
\* saturation equals max_sat, the first such key in the order north, south,
\* east, west.
WallOrder == <<"north_sensor", "south_sensor", "east_sensor", "west_sensor">>

BundleNamesWettestSide ==
    HasReturned("compute_features") =>
        /\ "wettest_side" \in DOMAIN ret
        /\ \E i \in 1..Len(WallOrder) :
              /\ ret.wettest_side = WallOrder[i]
              /\ call.saturation_values[WallOrder[i]] = ret.max_sat
              /\ \A j \in 1..(i - 1) : call.saturation_values[WallOrder[j]] # ret.max_sat

(***************************************************************************)
(* main.py: run_pipeline.                                                  *)
(*                                                                         *)
(* run_pipeline calls normalize_moisture(cleaned_readings) and             *)
(* compute_features(saturation_values=, soil_saturation_1h_ago=) and reads *)
(* features["forecast_24h_mm"] and features["IDF_24h_2yr_mm"].  The        *)
(* functions of normalization.py and features.py have other parameter      *)
(* lists, so linked against them (linked = "src") the first of these calls *)
(* raises TypeError.  linked = "variant" stands for the variants of the    *)
(* two functions that run_pipeline is written against: the normaliser on   *)
(* the constants of config.py and the extractor that passes the rainfall   *)
(* context through.  Both linkings are behaviours of the model.            *)
(***************************************************************************)
THETA_FC == R(25, 100)
THETA_SAT == R(40, 100)

\* normalize_moisture(cleaned_readings): S = (vwc - THETA_FC) / (THETA_SAT - THETA_FC).
normalize_moisture_config(cleaned_readings) ==
    Returned([key \in DOMAIN cleaned_readings |->
        RatDiv(RatSub(cleaned_readings[key], THETA_FC), RatSub(THETA_SAT, THETA_FC))])

\* compute_features(saturation_values, soil_saturation_1h_ago): the
\* aggregates of compute_features with the rainfall context of the timestep.
compute_features_with_context(saturation_values, soil_saturation_1h_ago, forecast_24h_mm, IDF_24h_2yr_mm) ==
    LET aggregates == compute_features(saturation_values, Zero, Zero)
    IN  IF aggregates.exc # "none"
        THEN aggregates
        ELSE Returned([sat_avg |-> aggregates.value.sat_avg,
                       max_sat |-> aggregates.value.max_sat,
                       sat_asymmetry |-> aggregates.value.sat_asymmetry,
                       soil_saturation_1h_ago |-> soil_saturation_1h_ago,
                       forecast_24h_mm |-> forecast_24h_mm,
                       IDF_24h_2yr_mm |-> IDF_24h_2yr_mm])

\* The water contents of a cleaned reading as numbers.
theta_of(cleaned_readings) == [key \in DOMAIN cleaned_readings |-> R(cleaned_readings[key].v, 100)]

\* The steps of one timestep after QC, for the cleaned reading: the first
\* exception ends them, otherwise the record appended to results.
score_timestep(timestamp, row, cleaned_readings, linked) ==
    LET saturation == IF linked = "src"
                      THEN Raised("TypeError")
                      ELSE normalize_moisture_config(theta_of(cleaned_readings))
        soil_saturation_1h_ago == R(1, 2)
        features == compute_features_with_context(saturation.value, soil_saturation_1h_ago,
                                                  row.forecast_24h_mm, row.IDF_24h_2yr_mm)
        risk == compute_risk_score(features.value.sat_avg,
                                   features.value.soil_saturation_1h_ago,
                                   features.value.forecast_24h_mm,
                                   features.value.IDF_24h_2yr_mm)
        category == map_risk_category(risk.value.displayed)
    IN  IF saturation.exc # "none" THEN Raised(saturation.exc)
        ELSE IF features.exc # "none" THEN Raised(features.exc)
        ELSE IF risk.exc # "none" THEN Raised(risk.exc)
        ELSE Returned([timestamp |-> timestamp,
                       saturation |-> saturation.value,
                       sat_avg |-> features.value.sat_avg,
                       max_sat |-> features.value.max_sat,
                       sat_asymmetry |-> features.value.sat_asymmetry,
                       risk_score |-> risk.value.displayed,
                       category |-> category])

MaxSteps == 2

Uniform(v) == [key \in WallKeys |-> Num(v)]
\* Rows of the merged table: four sound readings, one with a NaN channel,
\* one lacking a sensor column.
RowReadings ==
    { Uniform(31), Uniform(40),
      [Uniform(40) EXCEPT !["north_sensor"] = Num(25), !["west_sensor"] = Num(55)],
      [Uniform(31) EXCEPT !["north_sensor"] = NaNValue],
      [key \in WallKeys \ {"west_sensor"} |-> Num(31)] }
\* (forecast, IDF reference) in mm supplied for the timestep.
RainContexts == {<<50, 25>>, <<5, 25>>, <<10, 0>>, <<10, 0 - 25>>}
Rows ==
    {[raw |-> r, forecast_24h_mm |-> R(c[1], 1), IDF_24h_2yr_mm |-> R(c[2], 1)] :
        r \in RowReadings, c \in RainContexts}
Timeseries == UNION {[1..n -> Rows] : n \in 0..MaxSteps}

PipelineCalls == [fn : {"run_pipeline"}, data : Timeseries, linked : {"src", "variant"}]

\* After "results = []": no timestep done, no QC call made.
InitPipeline ==
    /\ call \in PipelineCalls
    /\ pc = "called"
    /\ ret = NoValue
    /\ frame = [i |-> 1, results |-> <<>>, qc_calls |-> <<>>]

\* One iteration of the for loop.  building raw_readings raises KeyError on
\* a missing column; QC is called with the one-reading batch and
\* previous_valid_reading = None; any exception leaves the loop and the
\* function.  qc_calls keeps, for each call of QC_and_smooth, the
\* previous_valid_reading passed and the cleaned reading returned.
Loop_timestep ==
    /\ pc = "called"
    /\ call.fn = "run_pipeline"
    /\ frame.i <= Len(call.data)
    /\ LET row == call.data[frame.i]
           previous_valid_reading == <<>>
           batch_readings == <<row.raw>>
           qc == QC_and_smooth(batch_readings, previous_valid_reading)
           logged == Append(frame.qc_calls,
                        [previous_valid_reading |-> previous_valid_reading,
                         cleaned |-> IF qc.exc = "none" THEN <<qc.value>> ELSE <<>>])
           step == IF qc.exc # "none" THEN Raised(qc.exc)
                   ELSE score_timestep(frame.i, row, qc.value, call.linked)
       IN  IF DOMAIN row.raw # WallKeys
           THEN /\ pc' = "raised"
                /\ ret' = "KeyError"
                /\ UNCHANGED <<call, frame>>
           ELSE IF step.exc # "none"
           THEN /\ pc' = "raised"
                /\ ret' = step.exc
                /\ frame' = [frame EXCEPT !.qc_calls = logged]
                /\ UNCHANGED call
           ELSE /\ frame' = [i |-> frame.i + 1,
                             results |-> Append(frame.results, step.value),
                             qc_calls |-> logged]
                /\ UNCHANGED <<call, pc, ret>>

\* After the loop: results are written to the CSV file.
Write_results ==
    /\ pc = "called"
    /\ call.fn = "run_pipeline"
    /\ frame.i > Len(call.data)
    /\ pc' = "returned"
    /\ ret' = frame.results
    /\ UNCHANGED <<call, frame>>

NextPipeline ==
    \/ Loop_timestep
    \/ Write_results

SpecPipeline == InitPipeline /\ [][NextPipeline]_vars

(***************************************************************************)
(* Properties of run_pipeline, checked under SpecPipeline.                 *)
(***************************************************************************)
\* The core failures of a timestep named by the error-handling design: a
\* missing sensor key, no valid reading with no fallback, an IDF reference
\* that is zero or negative.
CoreStepFails(row) ==
    \/ DOMAIN row.raw # WallKeys
    \/ ~reading_passes_basic_qc(row.raw)
    \/ RatLE(row.IDF_24h_2yr_mm, Zero)

=============================================================================
